---------------------------- MODULE Spec2Model ----------------------------
(***************************************************************************)
(* A model of the tick-stream feature pipeline of AI_random_forest:        *)
(*   utils/clean_data_csv_to_ticks_per_second.py  process_historical_file  *)
(*   train_initiation_model.py    load_data, engineer_features,            *)
(*                                define_labels, the training entry point  *)
(*   visualize_ai_signals.py      visualize_signals                        *)
(*   forward_test_virgin_data.py  forward_test_with_auto_process           *)
(*                                                                         *)
(* Numbers.  Timestamps are integers in milliseconds.  Every decimal       *)
(* column (Precio/price, tps_window, factor_tps, the price moves) is an    *)
(* integer count of hundredths, so round(x, 2) is exact: 3.5 is 350 and    *)
(* 4000 is 400000.  Volumen/volume and window_vol are whole contracts.     *)
(* A cell is <<v>> when it holds the number v and << >> when it is         *)
(* NaN / NaT (pandas' missing value).                                      *)
(***************************************************************************)
EXTENDS Integers, Sequences, FiniteSets, TLC

VARIABLES
    pc,           \* position of the running function / script
    args,         \* the arguments of the call under study
    input_file,   \* rows of the raw CSV given to process_historical_file
    df,           \* the table object of the caller (pandas DataFrame)
    df_indexed,   \* process_historical_file's indexed table with features
    output_file,  \* rows written by df_final.to_csv
    ret,          \* the table a stage returned
    files,        \* the files that exist, with their content
    calls,        \* the functions invoked so far, in order
    reported      \* the conditions printed so far

vars == <<pc, args, input_file, df, df_indexed, output_file, ret, files, calls, reported>>

--------------------------------------------------------------------------
(* Cells *)

NaN == << >>

Some(v) == <<v>>

IsNaN(c) == c = NaN

NotNa(c) == c # NaN

Val(c) == c[1]

\* The row r with the columns of s assigned (df[c] = ...).
Extend(r, s) == [c \in DOMAIN r \cup DOMAIN s |-> IF c \in DOMAIN s THEN s[c] ELSE r[c]]

RECURSIVE SumSeq(_)
SumSeq(s) == IF s = << >> THEN 0 ELSE s[1] + SumSeq(Tail(s))

Max2(a, b) == IF a >= b THEN a ELSE b

Min2(a, b) == IF a <= b THEN a ELSE b

SetMax(S) == CHOOSE x \in S : \A y \in S : y <= x

SetMin(S) == CHOOSE x \in S : \A y \in S : x <= y

\* numpy's round for num/den > 0 to the nearest integer, ties to even.
RoundDiv(num, den) ==
    LET q == num \div den
        r == num % den
    IN  IF 2 * r < den THEN q
        ELSE IF 2 * r > den THEN q + 1
        ELSE IF q % 2 = 0 THEN q ELSE q + 1

--------------------------------------------------------------------------
(* Bounds of the tick model *)

MaxTicks == 3

\* Timestamps (ms) the raw rows draw from: a burst at 0/1/2 ms, the edges
\* of the 500 ms volume window and of the 10 s tick-rate window.
TimeVals == {0, 1, 2, 500, 502, 10001}

VolVals == {1, 2}

\* process_historical_file(input_file, output_file, window_ms=500, tps_window_sec=10)
DefaultWindowMs == 500

DefaultTpsWindowSec == 10

RawRows(n) ==
    [row : {n}, Timestamp : {NaN} \cup {Some(t) : t \in TimeVals},
     Precio : {Some(100)}, Volumen : {NaN} \cup {Some(v) : v \in VolVals}]

RECURSIVE RawFiles(_)
RawFiles(n) ==
    IF n = 0 THEN {<< >>}
    ELSE LET shorter == RawFiles(n - 1)
         IN  shorter \cup
             {Append(f, r) : f \in {g \in shorter : Len(g) = n - 1}, r \in RawRows(n)}

--------------------------------------------------------------------------
(* process_historical_file: ingestion *)

\* df.dropna(subset=['Timestamp']): the rows whose timestamp parsed.
DropNaTimestamp(rows) == SelectSeq(rows, LAMBDA r : NotNa(r.Timestamp))

RangeOf(s) == {s[i] : i \in 1..Len(s)}

IsSortedByTimestamp(t) ==
    \A i \in 1..Len(t) - 1 : Val(t[i].Timestamp) <= Val(t[i + 1].Timestamp)

\* Every arrangement of the rows S in ascending order of column c.
RECURSIVE Arrangements(_, _)
Arrangements(S, c) ==
    IF S = {} THEN {<< >>}
    ELSE LET first == {r \in S : \A q \in S : Val(r[c]) <= Val(q[c])}
         IN  UNION {{<<r>> \o t : t \in Arrangements(S \ {r}, c)} : r \in first}

\* The one ascending arrangement that keeps rows of equal Timestamp in file order.
RECURSIVE StableArrangement(_)
StableArrangement(S) ==
    IF S = {} THEN << >>
    ELSE LET r == CHOOSE x \in S : \A q \in S :
                     \/ Val(x.Timestamp) < Val(q.Timestamp)
                     \/ Val(x.Timestamp) = Val(q.Timestamp) /\ x.row <= q.row
         IN  <<r>> \o StableArrangement(S \ {r})

\* df.sort_values('Timestamp') with the default kind='quicksort': ascending,
\* and rows of equal Timestamp in an order the sort does not determine.
SortValues(rows) == Arrangements(RangeOf(rows), "Timestamp")

\* df.set_index('Timestamp').sort_index(): an index that is already monotonic
\* increasing is left in place.
SortIndex(t) == IF IsSortedByTimestamp(t) THEN t ELSE StableArrangement(RangeOf(t))

--------------------------------------------------------------------------
(* process_historical_file: rolling window features *)

\* rolling(window=w, closed='right') on the time index, as pandas computes the
\* bounds of a variable window over a monotonic index: the start of row i's
\* window advances from the start of row i-1's window to the first row whose
\* Timestamp exceeds T - w (the left edge is open), and stops at row i.
\* WindowStart with the left edge closed (a tick at exactly T - w kept).
RECURSIVE WindowStartClosedLeft(_, _, _)
WindowStartClosedLeft(t, i, w) ==
    IF i = 1 THEN 1
    ELSE LET start_bound == Val(t[i].Timestamp) - w
             within == {j \in WindowStartClosedLeft(t, i - 1, w)..(i - 1) :
                           Val(t[j].Timestamp) - start_bound >= 0}
         IN  IF within = {} THEN i ELSE SetMin(within)

RECURSIVE WindowStart(_, _, _)
WindowStart(t, i, w) ==
    IF i = 1 THEN 1
    ELSE LET start_bound == Val(t[i].Timestamp) - w
             within == {j \in WindowStart(t, i - 1, w)..(i - 1) :
                           Val(t[j].Timestamp) - start_bound > 0}
         IN  IF within = {} THEN i ELSE SetMin(within)

\* The window of row i ends at row i itself (the right edge is closed and is
\* the current row): rows after i are never part of it.
WindowRows(t, i, w) == WindowStart(t, i, w)..i

RECURSIVE SumVolumen(_, _)
SumVolumen(t, J) ==
    IF J = {} THEN 0
    ELSE LET j == CHOOSE x \in J : TRUE
         IN  Val(t[j].Volumen) + SumVolumen(t, J \ {j})

\* .rolling(...).sum(): NaN cells are skipped; with no observation at all in
\* the window (min_periods is 1 for a time window) the sum is NaN.
\* RollingSum without the skipping of NaN cells: one NaN makes the sum NaN.
RollingSumNoSkip(t, i, w) ==
    IF \E j \in WindowRows(t, i, w) : IsNaN(t[j].Volumen) THEN NaN
    ELSE Some(SumVolumen(t, WindowRows(t, i, w)))

RollingSum(t, i, w) ==
    LET obs == {j \in WindowRows(t, i, w) : NotNa(t[j].Volumen)}
    IN  IF obs = {} THEN NaN ELSE Some(SumVolumen(t, obs))

\* df_indexed['Volumen'].rolling(...).count(): the non-NaN Volumen cells.
RollingCount(t, i, w) ==
    Cardinality({j \in WindowRows(t, i, w) : NotNa(t[j].Volumen)})

\* ts_series.rolling(...).min(): the oldest Timestamp of the window.
RollingMinTs(t, i, w) == SetMin({Val(t[j].Timestamp) : j \in WindowRows(t, i, w)})

\* duration_sec = (current_ts - min_ts_in_window) / 1e9, kept here in ms.
DurationMs(t, i, w) == Val(t[i].Timestamp) - RollingMinTs(t, i, w)

\* calc_tps(row), then .round(2); the result is in hundredths.
\* 0.001 s is 1 ms.  cnt / dur with dur in seconds is cnt * 1000 / dur_ms.
calc_tps(cnt, dur) ==
    IF cnt <= 1 THEN 0
    ELSE IF dur <= 1 THEN cnt * 100
    ELSE RoundDiv(cnt * 100000, dur)

\* (window_vol * tps_window).round(2), in hundredths.
FactorTps(window_vol, tps_window) ==
    IF IsNaN(window_vol) THEN NaN ELSE Some(Val(window_vol) * tps_window)

FeatureRow(t, i, window_ms, tps_window_sec) ==
    LET cnt == RollingCount(t, i, tps_window_sec * 1000)
        dur == DurationMs(t, i, tps_window_sec * 1000)
        vol == RollingSum(t, i, window_ms)
        tps == calc_tps(cnt, dur)
    IN  [row |-> t[i].row, Timestamp |-> t[i].Timestamp, Precio |-> t[i].Precio,
         Volumen |-> t[i].Volumen, window_vol |-> vol, window_duration |-> dur,
         window_count |-> cnt, tps_window |-> Some(tps),
         factor_tps |-> FactorTps(vol, tps)]

Features(t, window_ms, tps_window_sec) ==
    [i \in 1..Len(t) |-> FeatureRow(t, i, window_ms, tps_window_sec)]

\* df_result[cols_to_keep]: the columns of the processed file.
KeepCols(r) ==
    [Timestamp |-> r.Timestamp, Precio |-> r.Precio, Volumen |-> r.Volumen,
     window_vol |-> r.window_vol, tps_window |-> r.tps_window,
     factor_tps |-> r.factor_tps]

\* df_final.to_csv(...): one line per row; row is the line's number in the file.
ToCsv(t) == [i \in 1..Len(t) |-> Extend(KeepCols(t[i]), [row |-> i])]

--------------------------------------------------------------------------
(* process_historical_file as a state machine *)

NoTable == << >>

NoFiles == [f \in {} |-> << >>]

TickArgs == [window_ms : {DefaultWindowMs}, tps_window_sec : {DefaultTpsWindowSec}]

InitTicks ==
    /\ pc = "read_csv"
    /\ args \in TickArgs
    /\ input_file \in RawFiles(MaxTicks)
    /\ df = NoTable
    /\ df_indexed = NoTable
    /\ output_file = NoTable
    /\ ret = NoTable
    /\ files = NoFiles
    /\ calls = << >>
    /\ reported = {}

\* Lines 13-18: read, parse the timestamps, drop the unparsable rows, sort.
Ingest ==
    /\ pc = "read_csv"
    /\ \E sorted \in SortValues(DropNaTimestamp(input_file)) : df' = sorted
    /\ pc' = "features"
    /\ UNCHANGED <<args, input_file, df_indexed, output_file, ret, files, calls, reported>>

\* Lines 35-116: index by time and attach the window features.
ComputeFeatures ==
    /\ pc = "features"
    /\ df_indexed' = Features(SortIndex(df), args.window_ms, args.tps_window_sec)
    /\ pc' = "to_csv"
    /\ UNCHANGED <<args, input_file, df, output_file, ret, files, calls, reported>>

\* Lines 119-129: select the output columns and write the processed file.
Save ==
    /\ pc = "to_csv"
    /\ output_file' = ToCsv(df_indexed)
    /\ pc' = "saved"
    /\ UNCHANGED <<args, input_file, df, df_indexed, ret, files, calls, reported>>

NextTicks == Ingest \/ ComputeFeatures \/ Save

SpecTicks == InitTicks /\ [][NextTicks]_vars

--------------------------------------------------------------------------
(* train_initiation_model.py: engineer_features *)

\* A table given to engineer_features has the columns load_data leaves:
\* timestamp, price, factor_tps and the pass-through columns, for which
\* volume stands (side, bid, ask, window_vol, tps_window behave alike).
Column(t, c) == [i \in 1..Len(t) |-> t[i][c]]

\* Series.fillna(0)
FillNa0(col) == [i \in 1..Len(col) |-> IF IsNaN(col[i]) THEN Some(0) ELSE col[i]]

\* fillna(0) left out: the column as it was read.
KeepNa(col) == col

\* pd.to_numeric(df['factor_tps'], errors='coerce').fillna(0)
FilledFactorTps(col) == FillNa0(col)

\* Series.shift(k): the cell k rows earlier, NaN for the first k rows.
Shift(col, i, k) == IF i - k >= 1 THEN col[i - k] ELSE NaN

\* The trailing 5 rows of row i, when there are 5 and none is NaN
\* (rolling(window=5) has min_periods = 5).
Last5(col, i) == [k \in 1..5 |-> col[i - 5 + k]]

HasLast5(col, i) == i >= 5 /\ \A k \in (i - 4)..i : NotNa(col[k])

\* rolling(window=5).mean(), held as the sum of the 5 values: the mean in
\* fifths of a unit.
RollingMean5(col, i) ==
    IF HasLast5(col, i)
    THEN Some(SumSeq([k \in 1..5 |-> Val(Last5(col, i)[k])]))
    ELSE NaN

\* Exact squares beyond 2^31: a number hi * 10^6 + lo is held as <<hi, lo>>
\* with 0 <= lo < 10^6.
Carry(hi, lo) == <<hi + (lo \div 1000000), lo % 1000000>>

Square(x) ==
    LET a == x \div 1000
        b == x % 1000
    IN  Carry(a * a + ((2 * a * b) \div 1000), ((2 * a * b) % 1000) * 1000 + b * b)

RECURSIVE SumSquares(_)
SumSquares(xs) ==
    IF xs = << >> THEN <<0, 0>>
    ELSE LET sq == Square(xs[1])
             rest == SumSquares(Tail(xs))
         IN  Carry(sq[1] + rest[1], sq[2] + rest[2])

\* rolling(window=5).std(), held as 5 * sum(x^2) - sum(x)^2, which is 20 times
\* the sample variance (the square of the std), for x >= 0.
RollingStd5(col, i) ==
    IF HasLast5(col, i)
    THEN LET xs == [k \in 1..5 |-> Val(Last5(col, i)[k])]
             s2 == SumSquares(xs)
             sq == Square(SumSeq(xs))
         IN  Some(Carry(5 * s2[1] - sq[1] - 5, 5 * s2[2] - sq[2] + 5000000))
    ELSE NaN

\* .fillna(0) on the std column: 0 in the same representation.
FillStd0(col) == [i \in 1..Len(col) |-> IF IsNaN(col[i]) THEN Some(<<0, 0>>) ELSE col[i]]

\* Series.diff(5)
Diff5(col, i) ==
    IF i - 5 >= 1 /\ NotNa(col[i]) /\ NotNa(col[i - 5])
    THEN Some(Val(col[i]) - Val(col[i - 5]))
    ELSE NaN

\* Lines 63-78: the columns engineer_features assigns on the table it is given.
AddFeatureColumns(t) ==
    LET f == FilledFactorTps(Column(t, "factor_tps"))
        p == Column(t, "price")
        std == FillStd0([i \in 1..Len(t) |-> RollingStd5(f, i)])
    IN  [i \in 1..Len(t) |->
            Extend(t[i],
            [price |-> p[i], factor_tps |-> f[i],
             factor_tps_lag_1 |-> Shift(f, i, 1), factor_tps_lag_2 |-> Shift(f, i, 2),
             factor_tps_lag_3 |-> Shift(f, i, 3), factor_tps_lag_4 |-> Shift(f, i, 4),
             factor_tps_lag_5 |-> Shift(f, i, 5),
             factor_tps_mean_5 |-> RollingMean5(f, i),
             factor_tps_std_5 |-> std[i],
             price_velocity_5 |-> Diff5(p, i)])]

HasNaN(r) == \E c \in DOMAIN r : IsNaN(r[c])

\* df.dropna(): every row with a NaN in any column goes.
DropNa(t) == SelectSeq(t, LAMBDA r : ~HasNaN(r))

--------------------------------------------------------------------------
(* train_initiation_model.py: define_labels *)

\* define_labels(df, tps_threshold=4000, price_move_threshold=3.5, future_window=10)
DefaultTpsThreshold == 400000

DefaultPriceMoveThreshold == 350

DefaultFutureWindow == 10

\* FixedForwardWindowIndexer(window_size=fw): the window of row i is rows
\* i .. i + fw - 1, cut at the end of the table.
ForwardRows(n, i, fw) == i..Min2(i + fw - 1, n)

\* The forward window taken from the row after the current one.
ForwardRowsAfter(n, i, fw) == (i + 1)..Min2(i + fw, n)

\* rolling(window=indexer): min_periods is the indexer's window_size, so a
\* window with fewer than fw observations gives NaN.
ForwardObs(col, i, fw) ==
    {Val(col[j]) : j \in {k \in ForwardRows(Len(col), i, fw) : NotNa(col[k])}}

ForwardCount(col, i, fw) ==
    Cardinality({k \in ForwardRows(Len(col), i, fw) : NotNa(col[k])})

RollingForwardMax(col, i, fw) ==
    IF ForwardCount(col, i, fw) >= fw THEN Some(SetMax(ForwardObs(col, i, fw))) ELSE NaN

RollingForwardMin(col, i, fw) ==
    IF ForwardCount(col, i, fw) >= fw THEN Some(SetMin(ForwardObs(col, i, fw))) ELSE NaN

\* a - b on cells
Minus(a, b) == IF IsNaN(a) \/ IsNaN(b) THEN NaN ELSE Some(Val(a) - Val(b))

\* df[[a, b]].max(axis=1): NaN cells are skipped, NaN when both are NaN.
RowMax(a, b) ==
    IF IsNaN(a) THEN b
    ELSE IF IsNaN(b) THEN a
    ELSE Some(Max2(Val(a), Val(b)))

\* A comparison with NaN is False.
Gt(a, x) == NotNa(a) /\ Val(a) > x

Ge(a, x) == NotNa(a) /\ Val(a) >= x

\* The label with >= where the code has > on factor_tps.
IsInitiationGe(factor_tps, max_future_move, tps_threshold, price_move_threshold) ==
    IF Ge(factor_tps, tps_threshold) /\ Ge(max_future_move, price_move_threshold)
    THEN Some(1) ELSE Some(0)

\* Lines 110-113: ((factor_tps > thr) & (max_future_move >= move)).astype(int)
IsInitiation(factor_tps, max_future_move, tps_threshold, price_move_threshold) ==
    IF Gt(factor_tps, tps_threshold) /\ Ge(max_future_move, price_move_threshold)
    THEN Some(1) ELSE Some(0)

\* Lines 97-113: the columns define_labels assigns on the table it is given.
AddLabelColumns(t, tps_threshold, price_move_threshold, future_window) ==
    LET p == Column(t, "price")
    IN  [i \in 1..Len(t) |->
            LET fmax == RollingForwardMax(p, i, future_window)
                fmin == RollingForwardMin(p, i, future_window)
                up == Minus(fmax, p[i])
                down == Minus(p[i], fmin)
                move == RowMax(up, down)
            IN  Extend(t[i],
                    [future_price_max |-> fmax, future_price_min |-> fmin,
                     price_move_up |-> up, price_move_down |-> down,
                     max_future_move |-> move,
                     is_initiation |-> IsInitiation(t[i].factor_tps, move,
                                           tps_threshold, price_move_threshold)])]

\* df['is_initiation'].sum()
NumSignals(t) == SumSeq([i \in 1..Len(t) |-> Val(t[i].is_initiation)])

--------------------------------------------------------------------------
(* The two stages as calls on a table *)

MaxFeatureRows == 6

MaxLabelRows == 4

\* Rows of a table given to engineer_features: a plain row, a second plain
\* row, and rows with one missing cell.
FeatureRowVals ==
    {[price |-> Some(100), volume |-> Some(1), factor_tps |-> Some(500)],
     [price |-> Some(450), volume |-> Some(2), factor_tps |-> Some(2000)],
     [price |-> Some(100), volume |-> Some(1), factor_tps |-> NaN],
     [price |-> Some(100), volume |-> NaN, factor_tps |-> Some(500)],
     [price |-> NaN, volume |-> Some(1), factor_tps |-> Some(500)]}

\* Rows of a table given to define_labels: no cell is missing (it follows
\* dropna), factor_tps at and just above the threshold, prices 3.5 apart.
LabelRowVals ==
    [price : {Some(100), Some(450), Some(500)}, volume : {Some(1)},
     factor_tps : {Some(DefaultTpsThreshold), Some(DefaultTpsThreshold + 1)}]

RECURSIVE Tables(_, _)
Tables(vals, n) ==
    IF n = 0 THEN {<< >>}
    ELSE LET shorter == Tables(vals, n - 1)
         IN  shorter \cup
             {Append(t, Extend(r, [timestamp |-> Some(n)])) :
                 t \in {u \in shorter : Len(u) = n - 1}, r \in vals}

LabelArgs ==
    [tps_threshold : {DefaultTpsThreshold},
     price_move_threshold : {DefaultPriceMoveThreshold},
     future_window : {2, 3}]

InitStages ==
    /\ \/ /\ pc = "engineer_features"
          /\ df \in Tables(FeatureRowVals, MaxFeatureRows)
          /\ args = [df |-> df]
       \/ /\ pc = "define_labels"
          /\ df \in Tables(LabelRowVals, MaxLabelRows)
          /\ \E a \in LabelArgs : args = Extend(a, [df |-> df])
    /\ input_file = NoTable
    /\ df_indexed = NoTable
    /\ output_file = NoTable
    /\ ret = NoTable
    /\ files = NoFiles
    /\ calls = << >>
    /\ reported = {}

\* engineer_features(df): the columns are assigned on the caller's table, the
\* table without its NaN rows is returned.
EngineerFeatures ==
    /\ pc = "engineer_features"
    /\ df' = AddFeatureColumns(df)
    /\ ret' = DropNa(df')
    /\ pc' = "engineered"
    /\ UNCHANGED <<args, input_file, df_indexed, output_file, files, calls, reported>>

\* define_labels(df, ...): the columns are assigned on the caller's table, and
\* that same table is returned.
DefineLabels ==
    /\ pc = "define_labels"
    /\ df' = AddLabelColumns(df, args.tps_threshold, args.price_move_threshold,
                             args.future_window)
    /\ ret' = df'
    /\ pc' = "labeled"
    /\ UNCHANGED <<args, input_file, df_indexed, output_file, files, calls, reported>>

NextStages == EngineerFeatures \/ DefineLabels

SpecStages == InitStages /\ [][NextStages]_vars

--------------------------------------------------------------------------
(* train_initiation_model.py: load_data *)

\* Lines 19-36: read the processed file and rename its columns.
Renamed(r) ==
    [row |-> r.row, timestamp |-> r.Timestamp, price |-> r.Precio, volume |-> r.Volumen,
     window_vol |-> r.window_vol, tps_window |-> r.tps_window, factor_tps |-> r.factor_tps]

\* reset_index(drop=True): the rows are numbered anew by position.
ResetIndex(t) ==
    [i \in 1..Len(t) |-> [c \in DOMAIN t[i] \ {"row"} |-> t[i][c]]]

\* Lines 39-42: the tables load_data can return for the lines of a file:
\* rows without a timestamp dropped, sorted by timestamp (default quicksort).
LoadedTables(lines) ==
    LET parsed == {Renamed(lines[i]) : i \in 1..Len(lines)}
        valid == {r \in parsed : NotNa(r.timestamp)}
    IN  {ResetIndex(t) : t \in Arrangements(valid, "timestamp")}

--------------------------------------------------------------------------
(* The scripts: forward test, visualization, training *)

\* Ticks of the raw files the scripts run on.
PipelineTicks == 16

\* One tick a second at price 100.00 and volume 1, except a tick of volume
\* vol at position b, after which the price stands higher by jump.
ScenarioFile(b, vol, jump) ==
    [k \in 1..PipelineTicks |->
        [row |-> k, Timestamp |-> Some(1000 * k),
         Precio |-> Some(IF k > b THEN 10000 + jump ELSE 10000),
         Volumen |-> Some(IF k = b THEN vol ELSE 1)]]

ScenarioFiles ==
    {ScenarioFile(b, vol, jump) : b \in {6, 8}, vol \in {3000, 5000}, jump \in {0, 350}}

\* process_historical_file(raw_csv, tps_csv) with the default windows: the
\* contents it can write.
ProcessedFiles(lines) ==
    {ToCsv(Features(SortIndex(sorted), DefaultWindowMs, DefaultTpsWindowSec)) :
        sorted \in SortValues(DropNaTimestamp(lines))}

\* A file is readable (it parses as a CSV with the expected header) or not.
AsFile(lines) == [readable |-> TRUE, lines |-> lines]

Unreadable == [readable |-> FALSE, lines |-> << >>]

Exists(f) == f \in DOMAIN files

WithFile(fs, name, content) ==
    [f \in DOMAIN fs \cup {name} |-> IF f = name THEN content ELSE fs[f]]

Called(fn) == \E i \in 1..Len(calls) : calls[i] = fn

FileSystems ==
    LET raws == {AsFile(l) : l \in ScenarioFiles} \cup {Unreadable}
        tpss == UNION {{AsFile(c) : c \in ProcessedFiles(l)} : l \in ScenarioFiles}
                    \cup {Unreadable}
        model == AsFile(<< >>)
        pick(names, raw, tps) ==
            [f \in names |-> IF f = "raw" THEN raw ELSE IF f = "tps" THEN tps ELSE model]
    IN  {pick(names, raw, tps) :
            names \in SUBSET {"raw", "tps", "model"}, raw \in raws, tps \in tpss}

InitPipeline ==
    /\ pc \in {"forward_test", "visualize_signals", "train_main"}
    /\ args = [entry |-> pc]
    /\ files \in FileSystems
    /\ input_file = NoTable
    /\ df = NoTable
    /\ df_indexed = NoTable
    /\ output_file = NoTable
    /\ ret = NoTable
    /\ calls = << >>
    /\ reported = {}

\* forward_test_with_auto_process, lines 34-41 and 56-57, with the return on
\* a missing raw file left out.
FT_CheckFilesNoReturn ==
    /\ pc = "forward_test"
    /\ IF ~Exists("tps")
       THEN /\ reported' = reported \cup
                   (IF Exists("raw") THEN {"tps_not_found"}
                    ELSE {"tps_not_found", "raw_not_found"})
            /\ pc' = "ft_process"
       ELSE /\ reported' = reported
            /\ pc' = "ft_visualize"
    /\ UNCHANGED <<args, input_file, df, df_indexed, output_file, ret, files, calls>>

\* forward_test_with_auto_process, lines 34-41 and 56-57: which files exist.
FT_CheckFiles ==
    /\ pc = "forward_test"
    /\ IF ~Exists("tps")
       THEN IF ~Exists("raw")
            THEN /\ reported' = reported \cup {"tps_not_found", "raw_not_found"}
                 /\ pc' = "done"
            ELSE /\ reported' = reported \cup {"tps_not_found"}
                 /\ pc' = "ft_process"
       ELSE /\ reported' = reported
            /\ pc' = "ft_visualize"
    /\ UNCHANGED <<args, input_file, df, df_indexed, output_file, ret, files, calls>>

\* Lines 48-55: process the raw file; an exception is printed and ends the run.
FT_Process ==
    /\ pc = "ft_process"
    /\ calls' = Append(calls, "process_historical_file")
    /\ IF Exists("raw") /\ files["raw"].readable
       THEN /\ \E content \in ProcessedFiles(files["raw"].lines) :
                   files' = WithFile(files, "tps", AsFile(content))
            /\ reported' = reported
            /\ pc' = "ft_visualize"
       ELSE /\ files' = files
            /\ reported' = reported \cup {"processing_error"}
            /\ pc' = "done"
    /\ UNCHANGED <<args, input_file, df, df_indexed, output_file, ret>>

\* Line 61: visualize_signals(csv_path=tps_csv, model_path=model_path)
FT_Visualize ==
    /\ pc = "ft_visualize"
    /\ calls' = Append(calls, "visualize_signals")
    /\ pc' = "visualize_signals"
    /\ UNCHANGED <<args, input_file, df, df_indexed, output_file, ret, files, reported>>

\* load_data(filepath) as the two callers use it: the table on success, and
\* on any exception (the file is missing or does not parse) the error is
\* printed, None comes back and the caller stops.
LoadOrStop(next) ==
    /\ calls' = Append(calls, "load_data")
    /\ IF Exists("tps") /\ files["tps"].readable
       THEN /\ \E t \in LoadedTables(files["tps"].lines) : df' = t
            /\ reported' = reported
            /\ pc' = next
       ELSE /\ df' = df
            /\ reported' = reported \cup {"load_error"}
            /\ pc' = "done"
    /\ UNCHANGED <<args, input_file, df_indexed, output_file, ret, files>>

\* visualize_signals, lines 18-25.
VS_Load ==
    /\ pc = "visualize_signals"
    /\ LoadOrStop("vs_engineer")

RequiredCols == {"factor_tps", "price", "timestamp"}

MissingCols(t) == IF t = << >> THEN {} ELSE RequiredCols \ DOMAIN t[1]

\* Lines 28-34: the required columns, then engineer_features.
VS_Engineer ==
    /\ pc = "vs_engineer"
    /\ IF MissingCols(df) # {}
       THEN /\ reported' = reported \cup {"missing_columns"}
            /\ UNCHANGED <<df, calls>>
            /\ pc' = "done"
       ELSE /\ calls' = Append(calls, "engineer_features")
            /\ df' = DropNa(AddFeatureColumns(df))
            /\ reported' = reported
            /\ pc' = "vs_label"
    /\ UNCHANGED <<args, input_file, df_indexed, output_file, ret, files>>

\* Line 35: define_labels(df) with the default thresholds.
VS_Label ==
    /\ pc = "vs_label"
    /\ calls' = Append(calls, "define_labels")
    /\ df' = AddLabelColumns(df, DefaultTpsThreshold, DefaultPriceMoveThreshold,
                             DefaultFutureWindow)
    /\ pc' = "vs_signals"
    /\ UNCHANGED <<args, input_file, df_indexed, output_file, ret, files, reported>>

\* Lines 40-45: no signal is printed, and the run goes on (the return is
\* commented out).
VS_CheckSignals ==
    /\ pc = "vs_signals"
    /\ reported' = IF NumSignals(df) = 0 THEN reported \cup {"no_signals"} ELSE reported
    /\ pc' = "vs_model"
    /\ UNCHANGED <<args, input_file, df, df_indexed, output_file, ret, files, calls>>

\* Lines 48-53: the saved model when its file exists, else a model trained on df.
VS_Model ==
    /\ pc = "vs_model"
    /\ calls' = Append(calls, IF Exists("model") THEN "load_model_from_file"
                              ELSE "train_model")
    /\ pc' = "done"
    /\ UNCHANGED <<args, input_file, df, df_indexed, output_file, ret, files, reported>>

\* The training script, lines 169-170.
TM_Load ==
    /\ pc = "train_main"
    /\ LoadOrStop("tm_engineer")

\* Line 171.
TM_Engineer ==
    /\ pc = "tm_engineer"
    /\ calls' = Append(calls, "engineer_features")
    /\ df' = DropNa(AddFeatureColumns(df))
    /\ pc' = "tm_label"
    /\ UNCHANGED <<args, input_file, df_indexed, output_file, ret, files, reported>>

\* Line 172.
TM_Label ==
    /\ pc = "tm_label"
    /\ calls' = Append(calls, "define_labels")
    /\ df' = AddLabelColumns(df, DefaultTpsThreshold, DefaultPriceMoveThreshold,
                             DefaultFutureWindow)
    /\ pc' = "tm_signals"
    /\ UNCHANGED <<args, input_file, df_indexed, output_file, ret, files, reported>>

\* Lines 173-179: train and save only when a signal was labeled.
TM_TrainOrReport ==
    /\ pc = "tm_signals"
    /\ IF NumSignals(df) > 0
       THEN /\ calls' = calls \o <<"train_model", "save_model">>
            /\ files' = WithFile(files, "model", AsFile(<< >>))
            /\ reported' = reported
       ELSE /\ calls' = calls
            /\ files' = files
            /\ reported' = reported \cup {"no_signals"}
    /\ pc' = "done"
    /\ UNCHANGED <<args, input_file, df, df_indexed, output_file, ret>>

NextPipeline ==
    \/ FT_CheckFiles \/ FT_Process \/ FT_Visualize
    \/ VS_Load \/ VS_Engineer \/ VS_Label \/ VS_CheckSignals \/ VS_Model
    \/ TM_Load \/ TM_Engineer \/ TM_Label \/ TM_TrainOrReport

SpecPipeline == InitPipeline /\ [][NextPipeline]_vars

--------------------------------------------------------------------------
(* Properties of process_historical_file *)

Ts(i) == Val(df_indexed[i].Timestamp)

Rows == 1..Len(df_indexed)

VolOrZero(i) == IF IsNaN(df_indexed[i].Volumen) THEN 0 ELSE Val(df_indexed[i].Volumen)

RECURSIVE SumVolOrZero(_)
SumVolOrZero(J) ==
    IF J = {} THEN 0
    ELSE LET j == CHOOSE x \in J : TRUE IN VolOrZero(j) + SumVolOrZero(J \ {j})

\* The ticks of the whole table with a timestamp in (T - w, T], T the time of row i.
TicksInInterval(i, w) == {j \in Rows : Ts(i) - w < Ts(j) /\ Ts(j) <= Ts(i)}

\* Those of them that stand at or before row i in the table.
TicksInIntervalUpTo(i, w) == {j \in TicksInInterval(i, w) : j <= i}

\* C1 (as claimed): a tick whose tick-rate window holds more than one tick and
\* spans at most 0.001 s has tps_window = 0.
C1_BurstRateIsZero ==
    \A i \in Rows :
        (df_indexed[i].window_count > 1 /\ df_indexed[i].window_duration <= 1)
            => df_indexed[i].tps_window = Some(0)

\* C2 (as claimed): window_vol of the tick at time T is the sum of volume over
\* all ticks of the table with a timestamp in (T - window_ms, T], every tick
\* with timestamp T included.  Stated for tables without a null volume.
C2_WindowVolWholeInterval ==
    \A i \in Rows :
        (\A j \in Rows : NotNa(df_indexed[j].Volumen))
            => df_indexed[i].window_vol
                   = Some(SumVolOrZero(TicksInInterval(i, args.window_ms)))

\* C2 (amended): window_vol of the tick at row i and time T is the sum of the
\* volumes present over the ticks at rows up to and including i whose
\* timestamp lies in (T - window_ms, T]; it is NaN when none has a volume.
\* A tick at exactly T - window_ms and a tick at time T that stands after
\* row i are both left out.
C2_WindowVolCausalInterval ==
    \A i \in Rows :
        LET obs == {j \in TicksInIntervalUpTo(i, args.window_ms) :
                       NotNa(df_indexed[j].Volumen)}
        IN  df_indexed[i].window_vol
                = IF obs = {} THEN NaN ELSE Some(SumVolOrZero(obs))

\* C2 witness: a tick with a volume that has a tick exactly window_ms before
\* it and a tick of the same timestamp after it, both with a volume.
C2_Witness ==
    \E i \in Rows : \E j \in Rows : \E k \in Rows :
        /\ j < i /\ i < k
        /\ Ts(j) = Ts(i) - args.window_ms
        /\ Ts(k) = Ts(i)
        /\ \A x \in {i, j, k} : NotNa(df_indexed[x].Volumen)
        /\ df_indexed[i].window_vol = df_indexed[i].Volumen

\* C5 (as claimed): after ingestion the timestamps are non-decreasing and rows
\* of equal timestamp stand in the order of the input file.
C5_StableAscendingSort ==
    pc # "read_csv" =>
        /\ IsSortedByTimestamp(df)
        /\ \A i \in 1..Len(df) : \A j \in 1..Len(df) :
               (i < j /\ df[i].Timestamp = df[j].Timestamp) => df[i].row < df[j].row

\* C6 (as claimed): window_vol is always a number, the sum over the window
\* with a null volume counted as 0 (so 0 when every volume of the window is null).
C6_NullVolumeCountsAsZero ==
    \A i \in Rows :
        df_indexed[i].window_vol
            = Some(SumVolOrZero(TicksInIntervalUpTo(i, args.window_ms)))

\* C6 (amended): a null volume adds 0 to window_vol as long as some tick of
\* the window has a volume; when every tick of the window has a null volume
\* window_vol is NaN, not 0.  The computation itself never fails.
C6_NullVolumeSkipped ==
    \A i \in Rows :
        LET W == TicksInIntervalUpTo(i, args.window_ms)
        IN  IF \A j \in W : IsNaN(df_indexed[j].Volumen)
            THEN IsNaN(df_indexed[i].window_vol)
            ELSE df_indexed[i].window_vol = Some(SumVolOrZero(W))

\* C6 witness: a window holding a tick with a null volume and one with a
\* volume, and a window whose every tick has a null volume.
C6_Witness ==
    /\ pc = "saved"
    /\ \E i \in Rows :
           LET W == TicksInIntervalUpTo(i, args.window_ms)
           IN  /\ \E j \in W : IsNaN(df_indexed[j].Volumen)
               /\ \E j \in W : NotNa(df_indexed[j].Volumen)
               /\ NotNa(df_indexed[i].window_vol)
    /\ \E i \in Rows : IsNaN(df_indexed[i].window_vol)

\* The table has no two ticks with the same timestamp.
DistinctTimestamps == \A i \in Rows : \A j \in Rows : i # j => Ts(i) # Ts(j)

\* C11 (as claimed): window_count of the tick at time T is the number of ticks
\* of the table with a timestamp in (T - tps_window_sec, T], a tick with a
\* null volume counted like any other, and window_duration is T minus the
\* timestamp of the oldest of those ticks.  Stated for tables whose
\* timestamps are all distinct, where the ticks of the interval are the rows
\* of the window.
C11_WindowCountCountsEveryTick ==
    \A i \in Rows :
        DistinctTimestamps =>
            LET counted == TicksInInterval(i, args.tps_window_sec * 1000)
            IN  /\ df_indexed[i].window_count = Cardinality(counted)
                /\ df_indexed[i].window_duration
                       = Ts(i) - SetMin({Ts(j) : j \in counted})

--------------------------------------------------------------------------
(* Properties of engineer_features and define_labels *)

\* The cells of the table as it was given, other than factor_tps.
OtherCellsPresent(t) ==
    \A i \in 1..Len(t) : NotNa(t[i].timestamp) /\ NotNa(t[i].price) /\ NotNa(t[i].volume)

\* C4 (as claimed): a table of N >= 5 rows with every factor_tps present comes
\* back with exactly N - 5 rows, whatever its other columns hold.
C4_ShrinksByFiveAnyColumns ==
    (pc = "engineered" /\ Len(args.df) >= 5
        /\ \A i \in 1..Len(args.df) : NotNa(args.df[i].factor_tps))
        => Len(ret) = Len(args.df) - 5

\* C4 (amended): a table of N >= 5 rows with no missing cell in any column
\* other than factor_tps comes back with exactly N - 5 rows; a missing
\* factor_tps is filled with 0 and costs no row.
C4_ShrinksByFiveNoMissing ==
    (pc = "engineered" /\ Len(args.df) >= 5 /\ OtherCellsPresent(args.df))
        => Len(ret) = Len(args.df) - 5

\* C4 witness: 6 rows or more, a missing factor_tps, nothing else missing, and
\* N - 5 rows returned.
C4_Witness ==
    /\ pc = "engineered"
    /\ Len(args.df) >= 6
    /\ OtherCellsPresent(args.df)
    /\ \E i \in 1..Len(args.df) : IsNaN(args.df[i].factor_tps)
    /\ Len(ret) = Len(args.df) - 5

\* C3: is_initiation is 1 exactly when factor_tps > tps_threshold and
\* max_future_move >= price_move_threshold, and 0 otherwise.
C3_LabelRule ==
    pc = "labeled" =>
        \A i \in 1..Len(ret) :
            LET high == Val(ret[i].factor_tps) > args.tps_threshold
                moved == /\ NotNa(ret[i].max_future_move)
                         /\ Val(ret[i].max_future_move) >= args.price_move_threshold
            IN  ret[i].is_initiation = IF high /\ moved THEN Some(1) ELSE Some(0)

\* C3 witness: a row with factor_tps equal to the threshold and a large enough
\* move labeled 0, and a row above the threshold whose move equals
\* price_move_threshold labeled 1.
C3_Witness ==
    /\ pc = "labeled"
    /\ \E i \in 1..Len(ret) :
           /\ Val(ret[i].factor_tps) = args.tps_threshold
           /\ Ge(ret[i].max_future_move, args.price_move_threshold)
           /\ ret[i].is_initiation = Some(0)
    /\ \E i \in 1..Len(ret) :
           /\ Val(ret[i].factor_tps) > args.tps_threshold
           /\ ret[i].max_future_move = Some(args.price_move_threshold)
           /\ ret[i].is_initiation = Some(1)

\* C7 (as claimed): each of the final future_window rows has no label,
\* neither 0 nor 1.
C7_TrailingLabelsUndefined ==
    pc = "labeled" =>
        \A i \in 1..Len(ret) :
            i > Len(ret) - args.future_window
                => ret[i].is_initiation \notin {Some(0), Some(1)}

\* C10 (as claimed): for a row i with a full forward window, future_price_max
\* and future_price_min are the max and min of price over rows
\* i+1 .. i+future_window, the row's own price left out.
C10_ForwardWindowStartsAfterRow ==
    pc = "labeled" =>
        \A i \in 1..Len(ret) :
            i + args.future_window <= Len(ret) =>
                LET after == {Val(ret[j].price) :
                                 j \in ForwardRowsAfter(Len(ret), i, args.future_window)}
                IN  /\ ret[i].future_price_max = Some(SetMax(after))
                    /\ ret[i].future_price_min = Some(SetMin(after))

\* C12 (as claimed): after engineer_features(df) or define_labels(df) returns,
\* the caller's table has the same columns and the same cell values as
\* before the call.
C12_StagesLeaveInputUnchanged ==
    pc \in {"engineered", "labeled"} =>
        /\ Len(df) = Len(args.df)
        /\ \A i \in 1..Len(df) :
               /\ DOMAIN df[i] = DOMAIN args.df[i]
               /\ \A c \in DOMAIN args.df[i] : df[i][c] = args.df[i][c]

--------------------------------------------------------------------------
(* Properties of the scripts *)

\* C8 (as claimed): on every path that labels a table, when no row is labeled
\* 1 the condition is reported and train_model is never invoked on the table.
C8_NoTrainingWithoutSignals ==
    (Called("define_labels") /\ NumSignals(df) = 0) =>
        /\ ~Called("train_model")
        /\ pc \in {"vs_model", "done"} => "no_signals" \in reported

\* C9: a missing input file is reported and no later stage runs.  In the
\* forward test with neither the processed nor the raw file, neither
\* process_historical_file nor visualize_signals is invoked; after load_data
\* fails, neither engineer_features, define_labels nor train_model is invoked.
C9_MissingInputStopsPipeline ==
    /\ (args.entry = "forward_test" /\ ~Exists("raw") /\ ~Exists("tps")) =>
           /\ ~Called("process_historical_file")
           /\ ~Called("visualize_signals")
           /\ pc \in {"forward_test", "done"}
           /\ pc = "done" => "raw_not_found" \in reported
    /\ (Called("load_data") /\ ~(Exists("tps") /\ files["tps"].readable)) =>
           "load_error" \in reported
    /\ "load_error" \in reported =>
           /\ pc = "done"
           /\ ~Called("engineer_features")
           /\ ~Called("define_labels")
           /\ ~Called("train_model")

\* C9 witness: load_data was called on a missing file, the error was printed
\* and the run is over with no other call.
C9_Witness ==
    /\ pc = "done"
    /\ ~Exists("tps")
    /\ "load_error" \in reported
    /\ calls = <<"load_data">>

==========================================================================
